---- MODULE Spec2Model ----
(***************************************************************************)
(* Callback directives of bokeh.models.callbacks (OpenURL, CustomJS,       *)
(* SetValue) and the slope classification of examples/models/trail.py.     *)
(*                                                                         *)
(* Three specifications share the module:                                  *)
(*   Spec       SetValue directives: field reassignment, the validation    *)
(*              pass that runs the two _check_* validators of every        *)
(*              directive, and the runtime's dispatch.                     *)
(*   SpecCtor   construction of OpenURL and CustomJS objects.              *)
(*   SpecSlope  the five in-place threshold assignments of prep_data.      *)
(***************************************************************************)
EXTENDS Integers, Sequences, FiniteSets, TLC

VARIABLES
    directive,   \* Spec: d -> [obj, attr, value], the fields of SetValue d
    props,       \* Spec: target -> property name -> current property value
    passState,   \* Spec: "idle" | "running" | "returned" | "raised"
    current,     \* Spec: the directive whose validators are running, 0 if none
    visited,     \* Spec: directives whose validators have all run in this pass
    issues,      \* Spec: the error list the running pass accumulates
    last,        \* Spec: d -> outcome of each validator's latest run on d's current fields
    prev,        \* Spec: per-directive errors of the pass that ended before this one
    applied,     \* Spec: the assignment performed by the latest dispatch
    openurl,     \* SpecCtor: the latest OpenURL constructed
    customjs,    \* SpecCtor: the latest CustomJS constructed
    slope,       \* SpecSlope: the slope array of prep_data
    orig,        \* SpecSlope: the slope array as computed on line 44
    pc           \* SpecSlope: number of threshold assignments done

setvalue_vars == <<directive, props, passState, current, visited, issues, last, prev, applied>>
ctor_vars == <<openurl, customjs>>
slope_vars == <<slope, orig, pc>>
vars == <<setvalue_vars, ctor_vars, slope_vars>>

-----------------------------------------------------------------------------
(* Bounds and input sets *)

NumDirs == 2
Dirs == 1..NumDirs

Objs == {"t1", "t2"}
Attrs == {"x", "z"}
IntValues == {"5"}
StrValues == {"bad"}
Values == IntValues \cup StrValues

-----------------------------------------------------------------------------
(* The property framework SetValue consumes: HasProps.lookup and           *)
(* Property.is_valid.  t1 declares an integer property x, t2 a property x  *)
(* of type Any; no holder declares z.                                      *)

properties ==
    [t1 |-> [x |-> "Int"],
     t2 |-> [x |-> "Any"]]

DefaultOf(property) == "0"

\* lookup(name, raises=True): the descriptor, or not-found; with raises set a
\* missing name is an AttributeError instead.
lookup(obj, name, raises) ==
    IF name \in DOMAIN properties[obj] THEN properties[obj][name]
    ELSE IF raises THEN "AttributeError"
    ELSE "NotFound"

is_valid(property, value) ==
    IF property = "Int" THEN value \in IntValues \cup {"0"}
    ELSE TRUE

-----------------------------------------------------------------------------
(* Validator results.  A validator returns None (no issue), an issue of   *)
(* its error code, or does not return because an exception is raised.     *)

NotRun == [code |-> "NotRun", attr |-> "", obj |-> "", value |-> ""]
NoIssue == [code |-> "None", attr |-> "", obj |-> "", value |-> ""]
Raised == [code |-> "AttributeError", attr |-> "", obj |-> "", value |-> ""]

IsError(r) == r.code \in {"NOT_A_PROPERTY_OF", "INVALID_PROPERTY_VALUE"}

check_attr_inverted(self) ==
    IF lookup(self.obj, self.attr, FALSE) = "NotFound"
    THEN NoIssue
    ELSE [code |-> "NOT_A_PROPERTY_OF", attr |-> self.attr, obj |-> self.obj, value |-> ""]

\* SetValue._check_if_an_attribute_is_a_property_of_a_model
check_if_an_attribute_is_a_property_of_a_model(self) ==
    IF lookup(self.obj, self.attr, FALSE) # "NotFound"
    THEN NoIssue
    ELSE [code |-> "NOT_A_PROPERTY_OF", attr |-> self.attr, obj |-> self.obj, value |-> ""]

check_value_always_none(self) ==
    LET descriptor == lookup(self.obj, self.attr, TRUE)
    IN  IF descriptor = "AttributeError" THEN Raised ELSE NoIssue

\* SetValue._check_if_provided_a_valid_value: lookup is called without
\* raises=False, and the descriptor is dereferenced unconditionally.
check_if_provided_a_valid_value(self) ==
    LET descriptor == lookup(self.obj, self.attr, TRUE)
    IN  IF descriptor = "AttributeError" THEN Raised
        ELSE IF is_valid(descriptor, self.value) THEN NoIssue
        ELSE [code |-> "INVALID_PROPERTY_VALUE", attr |-> self.attr, obj |-> self.obj,
              value |-> self.value]

-----------------------------------------------------------------------------
(* Derived state of a directive *)

\* Unvalidated -> Valid | Invalid, from the validators' latest results.
Status(d) ==
    IF IsError(last[d].c1) \/ IsError(last[d].c2) \/ last[d].c2 = Raised THEN "Invalid"
    ELSE IF last[d].c1 = NoIssue /\ last[d].c2 = NoIssue THEN "Valid"
    ELSE "Unvalidated"

\* The errors the validators of d have produced in the pass under way or just ended.
Found(d) ==
    IF d \in visited \/ d = current
    THEN {r \in {last[d].c1, last[d].c2} : IsError(r)}
    ELSE {}

FoundAll == [d \in Dirs |-> Found(d)]
NoPrev == [d \in Dirs |-> {NotRun}]
NotApplied == [d |-> 0, obj |-> "", attr |-> "", value |-> ""]

SetValueInit ==
    /\ directive \in [Dirs -> [obj : Objs, attr : Attrs, value : Values]]
    /\ props = [t \in Objs |-> [a \in DOMAIN properties[t] |-> DefaultOf(properties[t][a])]]
    /\ passState = "idle"
    /\ current = 0
    /\ visited = {}
    /\ issues = <<>>
    /\ last = [d \in Dirs |-> [c1 |-> NotRun, c2 |-> NotRun]]
    /\ prev = NoPrev
    /\ applied = NotApplied

SetValueFrozen ==
    /\ directive = [d \in Dirs |-> [obj |-> "t1", attr |-> "x", value |-> "5"]]
    /\ props = [t \in Objs |-> [a \in DOMAIN properties[t] |-> DefaultOf(properties[t][a])]]
    /\ passState = "idle"
    /\ current = 0
    /\ visited = {}
    /\ issues = <<>>
    /\ last = [d \in Dirs |-> [c1 |-> NotRun, c2 |-> NotRun]]
    /\ prev = NoPrev
    /\ applied = NotApplied

-----------------------------------------------------------------------------
(* The validation pass over the object graph (Document.validate), which   *)
(* calls every _check_* validator of every model and collects the issues  *)
(* the validators return.  Models are visited in no particular order; the *)
(* validators of one model run in name order, attribute check first.  An  *)
(* exception raised by a validator propagates out of the pass.            *)

StartPass ==
    /\ passState # "running"
    /\ passState' = "running"
    /\ current' = 0
    /\ visited' = {}
    /\ issues' = <<>>
    /\ prev' = IF passState \in {"returned", "raised"} THEN FoundAll ELSE NoPrev
    /\ UNCHANGED <<directive, props, last, applied>>

RunAttributeCheck(d) ==
    /\ passState = "running"
    /\ current = 0
    /\ d \notin visited
    /\ LET r == check_if_an_attribute_is_a_property_of_a_model(directive[d])
       IN  /\ last' = [last EXCEPT ![d].c1 = r]
           /\ issues' = IF IsError(r) THEN Append(issues, r) ELSE issues
    /\ current' = d
    /\ UNCHANGED <<directive, props, passState, visited, prev, applied>>

RunValueCheck_assigns(d) ==
    /\ passState = "running"
    /\ current = d
    /\ LET r == check_if_provided_a_valid_value(directive[d])
       IN  /\ last' = [last EXCEPT ![d].c2 = r]
           /\ issues' = IF r = Raised THEN <<>>
                        ELSE IF IsError(r) THEN Append(issues, r) ELSE issues
           /\ passState' = IF r = Raised THEN "raised" ELSE passState
           /\ props' = IF r = NoIssue
                       THEN [props EXCEPT ![directive[d].obj][directive[d].attr] =
                                              directive[d].value]
                       ELSE props
    /\ current' = 0
    /\ visited' = visited \cup {d}
    /\ UNCHANGED <<directive, prev, applied>>

RunValueCheck(d) ==
    /\ passState = "running"
    /\ current = d
    /\ LET r == check_if_provided_a_valid_value(directive[d])
       IN  /\ last' = [last EXCEPT ![d].c2 = r]
           /\ issues' = IF r = Raised THEN <<>>
                        ELSE IF IsError(r) THEN Append(issues, r) ELSE issues
           /\ passState' = IF r = Raised THEN "raised" ELSE passState
    /\ current' = 0
    /\ visited' = visited \cup {d}
    /\ UNCHANGED <<directive, props, prev, applied>>

FinishPass ==
    /\ passState = "running"
    /\ current = 0
    /\ visited = Dirs
    /\ passState' = "returned"
    /\ UNCHANGED <<directive, props, current, visited, issues, last, prev, applied>>

-----------------------------------------------------------------------------
(* Field reassignment by the owning application, between passes.  The      *)
(* directive is Unvalidated again.                                         *)

Reassign(d, field, v) ==
    /\ passState # "running"
    /\ directive[d][field] # v
    /\ directive' = [directive EXCEPT ![d][field] = v]
    /\ last' = [last EXCEPT ![d] = [c1 |-> NotRun, c2 |-> NotRun]]
    /\ passState' = "idle"
    /\ visited' = {}
    /\ issues' = <<>>
    /\ prev' = NoPrev
    /\ UNCHANGED <<props, current, applied>>

SetObj(d, t) == Reassign(d, "obj", t)
SetAttr(d, a) == Reassign(d, "attr", a)
SetValueField(d, v) == Reassign(d, "value", v)

-----------------------------------------------------------------------------
(* Dispatch by the runtime when an event fires: value is assigned to      *)
(* target.attribute, and only for a directive whose latest validation     *)
(* succeeded.                                                              *)

Dispatch(d) ==
    /\ passState # "running"
    /\ Status(d) = "Valid"
    /\ props' = [props EXCEPT ![directive[d].obj][directive[d].attr] = directive[d].value]
    /\ applied' = [d |-> d, obj |-> directive[d].obj, attr |-> directive[d].attr,
                   value |-> directive[d].value]
    /\ UNCHANGED <<directive, passState, current, visited, issues, last, prev>>

-----------------------------------------------------------------------------
(* Construction of OpenURL and CustomJS.  Both __init__ methods forward    *)
(* their keyword arguments to the base initializer; a property that is not *)
(* passed takes the default its declaration gives, and a Required property *)
(* that is not passed is left unset.                                       *)

URLs == {"http://", "https://example.org/@name"}
Codes == {"", "console.log(cb_obj)", "export default () => 0"}
ArgMaps == {{}, {<<"source", "t1">>}}
Modules == {"auto", "True", "False"}

NoOpenURL ==
    [made |-> FALSE, given_url |-> FALSE, given_same_tab |-> FALSE,
     url |-> "", same_tab |-> FALSE]

NoCustomJS ==
    [made |-> FALSE, raised |-> "None", given_args |-> FALSE, given_code |-> FALSE,
     args |-> {}, code_set |-> FALSE, code |-> "", module |-> ""]

OpenURL_init_new_tab_swapped(has_url, url, has_same_tab, same_tab) ==
    [made |-> TRUE, given_url |-> has_url, given_same_tab |-> has_same_tab,
     url |-> IF has_url THEN url ELSE "http://",
     same_tab |-> IF has_same_tab THEN same_tab ELSE TRUE]

\* OpenURL(**kwargs): url = String("http://"), same_tab = Bool(False)
OpenURL_init(has_url, url, has_same_tab, same_tab) ==
    [made |-> TRUE, given_url |-> has_url, given_same_tab |-> has_same_tab,
     url |-> IF has_url THEN url ELSE "http://",
     same_tab |-> IF has_same_tab THEN same_tab ELSE FALSE]

CustomJS_init_rejects_empty(has_args, args, has_code, code, module) ==
    [made |-> TRUE,
     raised |-> IF has_code /\ code # "" THEN "None" ELSE "EmptyCode",
     given_args |-> has_args, given_code |-> has_code,
     args |-> IF has_args THEN args ELSE {},
     code_set |-> has_code, code |-> IF has_code THEN code ELSE "",
     module |-> module]

\* CustomJS(**kwargs): args = Dict(String, AnyRef)(default={}),
\* code = Required(String), module = Either(Auto, Bool)(default="auto").
\* The module declares no validator for code and __init__ checks nothing.
CustomJS_init(has_args, args, has_code, code, module) ==
    [made |-> TRUE, raised |-> "None",
     given_args |-> has_args, given_code |-> has_code,
     args |-> IF has_args THEN args ELSE {},
     code_set |-> has_code, code |-> IF has_code THEN code ELSE "",
     module |-> module]

NewOpenURL ==
    \E has_url \in BOOLEAN, url \in URLs, has_same_tab \in BOOLEAN, same_tab \in BOOLEAN :
        /\ openurl' = OpenURL_init(has_url, url, has_same_tab, same_tab)
        /\ UNCHANGED customjs

NewCustomJS ==
    \E has_args \in BOOLEAN, args \in ArgMaps, has_code \in BOOLEAN, code \in Codes,
       module \in Modules :
        /\ customjs' = CustomJS_init(has_args, args, has_code, code, module)
        /\ UNCHANGED openurl

CtorFrozen ==
    /\ openurl = NoOpenURL
    /\ customjs = NoCustomJS

CtorInit ==
    /\ CtorFrozen
    /\ SetValueFrozen
    /\ slope = <<>>
    /\ orig = <<>>
    /\ pc = 0

CtorNext ==
    \/ NewOpenURL /\ UNCHANGED <<setvalue_vars, slope_vars>>
    \/ NewCustomJS /\ UNCHANGED <<setvalue_vars, slope_vars>>

SpecCtor == CtorInit /\ [][CtorNext]_vars

-----------------------------------------------------------------------------
(* prep_data of examples/models/trail.py: the five in-place threshold     *)
(* assignments on the slope array, in program order.                      *)

SlopeLen == 2
MaxSlope == 16

yellow_without_upper_bound(a) == [i \in DOMAIN a |-> IF a[i] >= 4 THEN 1 ELSE a[i]]

\* slope[np.where(slope < 4)] = 0
green(a) == [i \in DOMAIN a |-> IF a[i] < 4 THEN 0 ELSE a[i]]
\* slope[np.where((slope >= 4) & (slope < 6))] = 1
yellow(a) == [i \in DOMAIN a |-> IF a[i] >= 4 /\ a[i] < 6 THEN 1 ELSE a[i]]
\* slope[np.where((slope >= 6) & (slope < 10))] = 2
pink(a) == [i \in DOMAIN a |-> IF a[i] >= 6 /\ a[i] < 10 THEN 2 ELSE a[i]]
\* slope[np.where((slope >= 10) & (slope < 15))] = 3
orange(a) == [i \in DOMAIN a |-> IF a[i] >= 10 /\ a[i] < 15 THEN 3 ELSE a[i]]
\* slope[np.where(slope >= 15)] = 4
red(a) == [i \in DOMAIN a |-> IF a[i] >= 15 THEN 4 ELSE a[i]]

AssignGreen == pc = 0 /\ slope' = green(slope) /\ pc' = 1 /\ UNCHANGED orig
AssignYellow == pc = 1 /\ slope' = yellow(slope) /\ pc' = 2 /\ UNCHANGED orig
AssignPink == pc = 2 /\ slope' = pink(slope) /\ pc' = 3 /\ UNCHANGED orig
AssignOrange == pc = 3 /\ slope' = orange(slope) /\ pc' = 4 /\ UNCHANGED orig
AssignRed == pc = 4 /\ slope' = red(slope) /\ pc' = 5 /\ UNCHANGED orig

SlopeFrozen ==
    /\ slope = <<>>
    /\ orig = <<>>
    /\ pc = 0

SlopeInit ==
    /\ slope \in [1..SlopeLen -> 0..MaxSlope]
    /\ orig = slope
    /\ pc = 0
    /\ SetValueFrozen
    /\ CtorFrozen

SlopeNext ==
    \/ AssignGreen /\ UNCHANGED <<setvalue_vars, ctor_vars>>
    \/ AssignYellow /\ UNCHANGED <<setvalue_vars, ctor_vars>>
    \/ AssignPink /\ UNCHANGED <<setvalue_vars, ctor_vars>>
    \/ AssignOrange /\ UNCHANGED <<setvalue_vars, ctor_vars>>
    \/ AssignRed /\ UNCHANGED <<setvalue_vars, ctor_vars>>

SpecSlope == SlopeInit /\ [][SlopeNext]_vars

-----------------------------------------------------------------------------
(* The SetValue specification *)

Init ==
    /\ SetValueInit
    /\ CtorFrozen
    /\ SlopeFrozen

Next ==
    \/ StartPass /\ UNCHANGED <<ctor_vars, slope_vars>>
    \/ \E d \in Dirs : RunAttributeCheck(d) /\ UNCHANGED <<ctor_vars, slope_vars>>
    \/ \E d \in Dirs : RunValueCheck(d) /\ UNCHANGED <<ctor_vars, slope_vars>>
    \/ FinishPass /\ UNCHANGED <<ctor_vars, slope_vars>>
    \/ \E d \in Dirs, t \in Objs : SetObj(d, t) /\ UNCHANGED <<ctor_vars, slope_vars>>
    \/ \E d \in Dirs, a \in Attrs : SetAttr(d, a) /\ UNCHANGED <<ctor_vars, slope_vars>>
    \/ \E d \in Dirs, v \in Values : SetValueField(d, v) /\ UNCHANGED <<ctor_vars, slope_vars>>
    \/ \E d \in Dirs : Dispatch(d) /\ UNCHANGED <<ctor_vars, slope_vars>>

Spec == Init /\ [][Next]_vars

-----------------------------------------------------------------------------
(* Properties *)

Resolves(d) == directive[d].attr \in DOMAIN properties[directive[d].obj]

ValueFits(d) ==
    /\ Resolves(d)
    /\ is_valid(properties[directive[d].obj][directive[d].attr], directive[d].value)

NotAPropertyOf(d) ==
    [code |-> "NOT_A_PROPERTY_OF", attr |-> directive[d].attr, obj |-> directive[d].obj,
     value |-> ""]

InvalidPropertyValue(d) ==
    [code |-> "INVALID_PROPERTY_VALUE", attr |-> directive[d].attr, obj |-> directive[d].obj,
     value |-> directive[d].value]

IssueSet == {issues[i] : i \in DOMAIN issues}

PassEnded == passState \in {"returned", "raised"}

\* C1: a directive whose attribute is not a property of its target, once its
\* validators have run, has exactly one NOT_A_PROPERTY_OF error, no
\* INVALID_PROPERTY_VALUE error, and its value check has returned normally.
C1_UnknownAttributeOnlyNotAPropertyOf ==
    \A d \in Dirs :
        (d \in visited /\ ~Resolves(d)) =>
            /\ last[d].c1 = NotAPropertyOf(d)
            /\ last[d].c2 = NoIssue

\* C2: a directive whose attribute is a property of its target and whose value
\* fails is_valid has, once its validators have run, exactly one
\* INVALID_PROPERTY_VALUE error carrying (value, target, attribute) and no
\* NOT_A_PROPERTY_OF error; the list the pass returns holds that error.
C2_InvalidValueOnlyInvalidPropertyValue ==
    \A d \in Dirs :
        (d \in visited /\ Resolves(d) /\ ~ValueFits(d)) =>
            /\ last[d].c1 = NoIssue
            /\ last[d].c2 = InvalidPropertyValue(d)
            /\ Found(d) = {InvalidPropertyValue(d)}
            /\ passState = "returned" => InvalidPropertyValue(d) \in IssueSet

C2_Witness ==
    \E d \in Dirs :
        d \in visited /\ Resolves(d) /\ ~ValueFits(d) /\ passState = "returned"

\* C3: a directive whose attribute resolves and whose value passes is_valid
\* has, once its validators have run, no error and is Valid; dispatch is then
\* possible, and the latest dispatch has left value in target.attribute.
C3_ValidDirectiveCleanAndApplied ==
    /\ \A d \in Dirs :
        (d \in visited /\ ValueFits(d)) =>
            /\ last[d].c1 = NoIssue
            /\ last[d].c2 = NoIssue
            /\ Found(d) = {}
            /\ Status(d) = "Valid"
            /\ passState # "running" => ENABLED Dispatch(d)
    /\ applied # NotApplied => props[applied.obj][applied.attr] = applied.value

C3_Witness ==
    /\ applied # NotApplied
    /\ props[applied.obj][applied.attr] = "5"
    /\ \E d \in Dirs : d \in visited /\ ValueFits(d) /\ applied.d = d

C5_PassCompletesWithAllErrors ==
    /\ passState # "raised"
    /\ passState = "returned" =>
        \A d \in Dirs :
            /\ ~Resolves(d) => NotAPropertyOf(d) \in IssueSet
            /\ (Resolves(d) /\ ~ValueFits(d)) => InvalidPropertyValue(d) \in IssueSet

\* C8: two passes over the same directives, whatever order each visits them
\* in, produce the same errors for every directive.
C8_SameErrorsInEveryOrder ==
    (PassEnded /\ prev # NoPrev) => FoundAll = prev

\* C9: a step of the validation pass leaves every directive's fields and
\* every property value of every target unchanged, and a validator that runs
\* again on unchanged fields has the outcome it had before.
C9_ValidationPureAndDeterministic ==
    [][(passState = "running" \/ passState' = "running") =>
          /\ directive' = directive
          /\ props' = props
          /\ \A d \in Dirs :
                /\ last[d].c1 # NotRun => last'[d].c1 = last[d].c1
                /\ last[d].c2 # NotRun => last'[d].c2 = last[d].c2
      ]_vars

\* A second pass has ended with no reassignment since the one before, and a
\* dispatch has changed a property value in between or before.
C9_Witness ==
    /\ PassEnded
    /\ prev # NoPrev
    /\ visited # {}
    /\ \E d \in Dirs : d \in visited /\ ValueFits(d) /\ last[d].c2 = NoIssue
    /\ \E d \in Dirs : d \in visited /\ ~ValueFits(d)

C7_OpenURLDefaults ==
    openurl.made =>
        /\ ~openurl.given_url => openurl.url = "http://"
        /\ ~openurl.given_same_tab => openurl.same_tab = FALSE
        /\ (~openurl.given_url /\ ~openurl.given_same_tab) =>
              (openurl.url = "http://" /\ openurl.same_tab = FALSE)

C7_Witness ==
    /\ openurl.made
    /\ ~openurl.given_same_tab
    /\ openurl.given_url
    /\ openurl.url # "http://"

\* The class the claim assigns to an original slope value.
Class(s) ==
    IF s < 4 THEN 0
    ELSE IF s < 6 THEN 1
    ELSE IF s < 10 THEN 2
    ELSE IF s < 15 THEN 3
    ELSE 4

\* C10: an entry keeps its original value until the assignment of its class
\* has run, holds its class code from then on, and after the five
\* assignments every entry is its class code, in 0..4.
C10_SlopeClassification ==
    \A i \in DOMAIN slope :
        /\ pc > Class(orig[i]) => slope[i] = Class(orig[i])
        /\ pc <= Class(orig[i]) => slope[i] = orig[i]
        /\ pc = 5 => slope[i] \in 0..4

C10_Witness ==
    /\ pc = 5
    /\ \E i \in DOMAIN orig : orig[i] = 4 /\ slope[i] = 1
    /\ \E i \in DOMAIN orig : orig[i] >= 15 /\ slope[i] = 4

====
